---- MODULE Spec2Model ----
(***************************************************************************)
(* Model of the arb synchronization engine (crates/lib/src/arb.rs and      *)
(* crates/lib/src/intl.rs) and of the command handlers of src/main.rs.     *)
(*                                                                         *)
(* A bundle (ArbFile) is an insertion-ordered map: a sequence of           *)
(* [key, value] records with pairwise distinct keys.  A JSON value is a    *)
(* record [kind, text, ph, names]; a string value holds its text as a      *)
(* sequence of tokens, where "{n}" and "<ph>n</ph>" are single tokens.     *)
(***************************************************************************)
EXTENDS Naturals, Sequences, FiniteSets, TLC

VARIABLES
    template,   \* the template bundle file of the arb directory
    files,      \* per language: the bundle file of the arb directory
    cache,      \* Intl.cache: the in-memory ArbCache of the context
    disk,       \* the .cache.json file of the arb directory
    last,       \* what the last translate() call did and returned
    diffOut,    \* output of the last Diff command: language -> FileDiff
    ncalls,     \* number of commands and calls made so far
    templateExists, \* whether the template bundle file can be read
    name_prefix,    \* Intl.name_prefix: the prefix of bundle file names
    dir,        \* the names of the bundle files in the arb directory
    listed,     \* output of the last list_translated(): language -> name
    before,     \* what the call before the last one did and returned
    update      \* the Update command under way: its options and progress

vars == <<template, files, cache, disk, last, diffOut, ncalls,
          templateExists, name_prefix, dir, listed, before, update>>

\* Bound on the number of calls of one behaviour.
MaxCalls == 2

\* Bound on the number of entries of a bundle drawn for the Diff command.
MaxLen == 2

----------------------------------------------------------------------------
(* File names of bundles, as sequences of characters                       *)

App == <<"a", "p", "p">>

\* The languages of the backend, each as the characters of its Display form.
SupportedLangs ==
    { <<"A", "R">>, <<"B", "G">>, <<"C", "S">>,
      <<"D", "A">>, <<"D", "E">>, <<"E", "L">>,
      <<"E", "N">>, <<"E", "N", "-", "G", "B">>, <<"E", "N", "-", "U", "S">>,
      <<"E", "S">>, <<"E", "T">>, <<"F", "I">>,
      <<"F", "R">>, <<"H", "U">>, <<"I", "D">>,
      <<"I", "T">>, <<"J", "A">>, <<"K", "O">>,
      <<"L", "T">>, <<"L", "V">>, <<"N", "B">>,
      <<"N", "L">>, <<"P", "L">>, <<"P", "T">>,
      <<"P", "T", "-", "B", "R">>, <<"P", "T", "-", "P", "T">>, <<"R", "O">>,
      <<"R", "U">>, <<"S", "K">>, <<"S", "L">>,
      <<"S", "V">>, <<"T", "R">>, <<"U", "K">>,
      <<"Z", "H">> }

UpperCase ==
    <<"A", "B", "C", "D", "E", "F", "G", "H", "I", "J", "K", "L", "M",
      "N", "O", "P", "Q", "R", "S", "T", "U", "V", "W", "X", "Y", "Z">>

LowerCase ==
    <<"a", "b", "c", "d", "e", "f", "g", "h", "i", "j", "k", "l", "m",
      "n", "o", "p", "q", "r", "s", "t", "u", "v", "w", "x", "y", "z">>

ToLower(c) ==
    IF \E i \in DOMAIN UpperCase : UpperCase[i] = c
    THEN LowerCase[CHOOSE i \in DOMAIN UpperCase : UpperCase[i] = c]
    ELSE c

\* str::to_lowercase
ToLowercase(s) == [i \in DOMAIN s |-> ToLower(s[i])]

\* str::replace("-", "_")
ReplaceHyphens(s) == [i \in DOMAIN s |-> IF s[i] = "-" THEN "_" ELSE s[i]]

ArbExtension == <<".", "a", "r", "b">>

\* Intl::format_file_name
FormatFileName(prefix, lang) ==
    prefix \o <<"_">> \o ReplaceHyphens(ToLowercase(lang)) \o ArbExtension

\* Path::file_stem: the name up to its last dot, when that dot is not first.
FileStem(name) ==
    LET dots == {i \in DOMAIN name : name[i] = "." /\ i > 1}
    IN  IF dots = {}
        THEN name
        ELSE SubSeq(name, 1, (CHOOSE i \in dots : \A j \in dots : j <= i) - 1)

\* str::starts_with
StartsWith(s, pat) == Len(pat) <= Len(s) /\ SubSeq(s, 1, Len(pat)) = pat

RECURSIVE TrimStartMatches(_, _)
\* str::trim_start_matches: every leading repetition of pat is removed.
TrimStartMatches(s, pat) ==
    IF pat # <<>> /\ StartsWith(s, pat)
    THEN TrimStartMatches(SubSeq(s, Len(pat) + 1, Len(s)), pat)
    ELSE s

NoLang == [some |-> FALSE, lang |-> <<>>]

\* impl FromStr for Lang: the Display form or its lowercase form.
FromStr(s) ==
    IF \E l \in SupportedLangs : s = l \/ s = ToLowercase(l)
    THEN [some |-> TRUE,
          lang |-> CHOOSE l \in SupportedLangs : s = l \/ s = ToLowercase(l)]
    ELSE NoLang

\* Intl::parse_file_name
ParseFileName(prefix, name) ==
    LET stem == FileStem(name)
    IN  IF StartsWith(stem, prefix)
        THEN FromStr(TrimStartMatches(stem, prefix \o <<"_">>))
        ELSE NoLang

\* No list_translated() was made yet.
NoListing == [names |-> {}, found |-> [l \in {} |-> <<>>]]

----------------------------------------------------------------------------
(* JSON values (serde_json::Value)                                         *)

Str(t) == [kind |-> "string", text |-> t, ph |-> FALSE, names |-> <<>>]
Num == [kind |-> "number", text |-> <<>>, ph |-> FALSE, names |-> <<>>]
\* An object with a "placeholders" object whose member names are names.
Meta(names) == [kind |-> "object", text |-> <<>>, ph |-> TRUE, names |-> names]
\* An object without a "placeholders" member.
Obj == [kind |-> "object", text |-> <<>>, ph |-> FALSE, names |-> <<>>]

Langs == {"FR", "DE", "IT"}

\* The languages the single calls are made for.
CallLangs == {"FR", "DE"}

BaseKeys == {"a", "b"}
MetaKey(k) == "@" \o k
IsPrefixed(k) == k \in {MetaKey(b) : b \in BaseKeys}

Brace(n) == "{" \o n \o "}"
PhTag(n) == "<ph>" \o n \o "</ph>"

----------------------------------------------------------------------------
(* ArbFile: IndexMap<String, Value>                                        *)

Entry(k, v) == [key |-> k, value |-> v]

Keys(b) == {b[i].key : i \in DOMAIN b}

Has(b, k) == \E i \in DOMAIN b : b[i].key = k

IndexOf(b, k) == CHOOSE i \in DOMAIN b : b[i].key = k

\* 0-based position, as IndexMap::get_index_of.
PosOf(b, k) == IndexOf(b, k) - 1

Get(b, k) == b[IndexOf(b, k)].value

IsBundle(b) == \A i, j \in DOMAIN b : b[i].key = b[j].key => i = j

\* A faulty insert that moves a key it replaces to the end.
InsertAtEnd(b, k, v) ==
    Append(SelectSeq(b, LAMBDA e : e.key # k), Entry(k, v))

\* IndexMap::insert: replace the value in place, or append.
Insert(b, k, v) ==
    IF Has(b, k)
    THEN [b EXCEPT ![IndexOf(b, k)] = Entry(k, v)]
    ELSE Append(b, Entry(k, v))

\* A faulty remove that leaves the bundle as it is.
RemoveBug(b, k) == b

\* IndexMap::shift_remove: remove the key, keeping the order of the rest.
Remove(b, k) ==
    IF Has(b, k)
    THEN LET i == IndexOf(b, k)
         IN  SubSeq(b, 1, i - 1) \o SubSeq(b, i + 1, Len(b))
    ELSE b

\* A faulty shift_insert that ignores the index.
ShiftInsertBug(b, index, k, v) == Insert(b, k, v)

\* IndexMap::shift_insert at a 0-based index < len: a new key is inserted
\* there, an existing key is moved there.
ShiftInsert(b, index, k, v) ==
    LET r == Remove(b, k)
    IN  SubSeq(r, 1, index) \o <<Entry(k, v)>> \o SubSeq(r, index + 1, Len(r))

IsTranslatable(e) == ~IsPrefixed(e.key) /\ e.value.kind = "string"

----------------------------------------------------------------------------
(* FileDiff and ArbFile::diff                                              *)

\* An optional bundle: a file that may not exist, Option<&ArbFile>.
None == [present |-> FALSE, contents |-> <<>>]
Some(b) == [present |-> TRUE, contents |-> b]

\* A faulty diff whose create set is the whole template.
DiffCreateAll(t, x, c) ==
    [create |-> Keys(t),
     delete |-> Keys(x) \ Keys(t),
     update |-> IF c.present
                THEN {k \in Keys(c.contents) :
                        Has(t, k) /\ Get(t, k) # Get(c.contents, k)}
                ELSE {}]

\* A faulty diff whose delete set is the whole target.
DiffDeleteAll(t, x, c) ==
    [create |-> Keys(t) \ Keys(x),
     delete |-> Keys(x),
     update |-> IF c.present
                THEN {k \in Keys(c.contents) :
                        Has(t, k) /\ Get(t, k) # Get(c.contents, k)}
                ELSE {}]

\* A faulty diff whose update set ignores the cache.
DiffUpdateInTarget(t, x, c) ==
    [create |-> Keys(t) \ Keys(x),
     delete |-> Keys(x) \ Keys(t),
     update |-> IF c.present
                THEN {k \in Keys(c.contents) :
                        Has(t, k) /\ Has(x, k) /\ Get(t, k) # Get(c.contents, k)}
                ELSE {}]

Diff(t, x, c) ==
    [create |-> Keys(t) \ Keys(x),
     delete |-> Keys(x) \ Keys(t),
     update |-> IF c.present
                THEN {k \in Keys(c.contents) :
                        Has(t, k) /\ Get(t, k) # Get(c.contents, k)}
                ELSE {}]

----------------------------------------------------------------------------
(* Placeholders                                                            *)

NoErr == [kind |-> "none", name |-> "", text |-> <<>>, expected |-> 0, got |-> 0]
PlaceholderNotDefined(n, t) == [NoErr EXCEPT !.kind = "PlaceholderNotDefined", !.name = n, !.text = t]
AlreadyPrefixed(k) == [NoErr EXCEPT !.kind = "AlreadyPrefixed", !.name = k]
TranslationLength(e, g) == [NoErr EXCEPT !.kind = "TranslationLength", !.expected = e, !.got = g]
DeeplError == [NoErr EXCEPT !.kind = "Deepl"]
IoError == [NoErr EXCEPT !.kind = "Io"]

\* ArbFile::placeholders: the names declared by the sibling metadata entry.
PlaceholdersOf(t, k) ==
    IF IsPrefixed(k)
    THEN [err |-> AlreadyPrefixed(k), some |-> FALSE, names |-> <<>>]
    ELSE IF Has(t, MetaKey(k))
              /\ Get(t, MetaKey(k)).kind = "object"
              /\ Get(t, MetaKey(k)).ph
         THEN [err |-> NoErr, some |-> TRUE, names |-> Get(t, MetaKey(k)).names]
         ELSE [err |-> NoErr, some |-> FALSE, names |-> <<>>]

Contains(text, tok) == \E i \in DOMAIN text : text[i] = tok

\* A faulty verification that accepts every text.
VerifyNothing(names, text) == NoErr

\* A faulty verification that reports the last declared name that is absent.
VerifyLastMissing(names, text) ==
    LET missing == {i \in DOMAIN names : ~Contains(text, Brace(names[i]))}
    IN  IF missing = {}
        THEN NoErr
        ELSE LET i == CHOOSE i \in missing : \A j \in missing : j <= i
             IN  PlaceholderNotDefined(names[i], text)

\* Placeholders::verify: the first declared name whose {name} is absent.
Verify(names, text) ==
    LET missing == {i \in DOMAIN names : ~Contains(text, Brace(names[i]))}
    IN  IF missing = {}
        THEN NoErr
        ELSE LET i == CHOOSE i \in missing : \A j \in missing : i <= j
             IN  PlaceholderNotDefined(names[i], text)

\* str::replacen(from, to, 1) on a token sequence.
ReplaceFirst(text, from, to) ==
    IF Contains(text, from)
    THEN LET i == CHOOSE i \in DOMAIN text :
                    text[i] = from /\ \A j \in 1..(i - 1) : text[j] # from
         IN  [text EXCEPT ![i] = to]
    ELSE text

RECURSIVE Protect(_, _)
\* Replace placeholders with XML tags, one replacement per declared name.
Protect(text, names) ==
    IF names = <<>>
    THEN text
    ELSE Protect(ReplaceFirst(text, Brace(Head(names)), PhTag(Head(names))), Tail(names))

\* A faulty restoration that leaves the XML tags in the translation.
RestoreNone(text, names) == text

RECURSIVE Restore(_, _)
\* Revert placeholder XML tags, one replacement per declared name.
Restore(text, names) ==
    IF names = <<>>
    THEN text
    ELSE Restore(ReplaceFirst(text, PhTag(Head(names)), Brace(Head(names))), Tail(names))

----------------------------------------------------------------------------
(* ArbCache: BTreeMap<Lang, ArbFile>                                       *)

EmptyCache == [l \in Langs |-> None]

GetFile(c, lang) == c[lang]

\* A faulty add_entry that records the entry for every language.
AddEntryEverywhere(c, lang, k, v) ==
    [l \in DOMAIN c |-> Some(Insert(c[l].contents, k, v))]

\* ArbCache::add_entry
AddEntry(c, lang, k, v) == [c EXCEPT ![lang] = Some(Insert(c[lang].contents, k, v))]

\* A faulty remove_entry that forgets nothing.
RemoveEntryNever(c, lang, k) == c

\* ArbCache::remove_entry
RemoveEntry(c, lang, k) ==
    IF c[lang].present
    THEN [c EXCEPT ![lang] = Some(Remove(c[lang].contents, k))]
    ELSE c

----------------------------------------------------------------------------
(* The translation backend (DeeplApi::translate_text)                      *)

\* The translation of one text: tagged with the language, tokens kept.
BackendText(lang, text) == <<lang>> \o text

Responses == {"ok", "fail", "short"}

\* The translations of a response to a request of texts.
BackendTranslations(resp, lang, texts) ==
    LET all == [i \in DOMAIN texts |-> BackendText(lang, texts[i])]
    IN  CASE resp = "short" -> SubSeq(all, 1, Len(all) - 1)
          [] resp = "echo" -> texts
          [] OTHER -> all

----------------------------------------------------------------------------
(* Intl::translate                                                         *)

NoInvalidation == [mode |-> "none", keys |-> <<>>]
InvalidateAll == [mode |-> "all", keys |-> <<>>]
InvalidateKeys(ks) == [mode |-> "keys", keys |-> ks]

\* Some(Invalidation::All), or Some(Invalidation::Keys) listing the key.
Invalidated(inval, k) ==
    \/ inval.mode = "all"
    \/ inval.mode = "keys" /\ \E i \in DOMAIN inval.keys : inval.keys[i] = k

\* A faulty skip test that ignores the invalidation.
SkippedUnlessCreated(d, inval, k) ==
    ~Invalidated(inval, k) /\ (k \in d.delete \/ k \notin d.create)

\* A faulty skip test that skips no entry.
SkippedNever(d, inval, k) == FALSE

\* "Ignore if removed or not in the set of added keys."
Skipped(d, inval, k) ==
    ~Invalidated(inval, k)
        /\ (k \in d.delete \/ (k \notin d.create /\ k \notin d.update))

\* A faulty override test that never finds an override.
NeverOverridden(ov, k) == FALSE

\* "Would be overwritten by a manual translation so no need to translate."
Overridden(ov, k) == ov.present /\ Has(ov.contents, k)

\* CachedEntry::Entry
StagedEntry(e) ==
    [tag |-> "Entry", key |-> e.key, value |-> e.value,
     some |-> FALSE, names |-> <<>>, hasIndex |-> FALSE, index |-> 0]

\* CachedEntry::Translate
StagedTranslate(e, some, names, hasIndex, index) ==
    [tag |-> "Translate", key |-> e.key, value |-> e.value,
     some |-> some, names |-> names, hasIndex |-> hasIndex, index |-> index]

\* A faulty key_index that never records a position.
KeyIndexNever(t, d, k) == [some |-> FALSE, index |-> 0]

\* key_index: the template position of a key in diff.create.
KeyIndex(t, d, k) ==
    IF k \in d.create
    THEN [some |-> TRUE, index |-> PosOf(t, k)]
    ELSE [some |-> FALSE, index |-> 0]

\* A faulty queueing step that caches the entry in a dry run.
QueueCachingInDryRun(st, opts, e, text, ph, ki) ==
    IF ~opts.dry
    THEN [st EXCEPT !.translatable = Append(@, text),
                    !.cache = IF ~opts.dc
                              THEN AddEntry(@, opts.lang, e.key, e.value)
                              ELSE @,
                    !.cached = Append(@, StagedTranslate(e, ph.some, ph.names,
                                                         ki.some, ki.index))]
    ELSE [st EXCEPT !.cache = AddEntry(@, opts.lang, e.key, e.value),
                    !.cached = Append(@, StagedEntry(e))]

\* A faulty queueing step that caches the protected text.
QueueCachingProtected(st, opts, e, text, ph, ki) ==
    IF ~opts.dry
    THEN [st EXCEPT !.translatable = Append(@, text),
                    !.cache = IF ~opts.dc
                              THEN AddEntry(@, opts.lang, e.key, Str(text))
                              ELSE @,
                    !.cached = Append(@, StagedTranslate(e, ph.some, ph.names,
                                                         ki.some, ki.index))]
    ELSE [st EXCEPT !.cached = Append(@, StagedEntry(e))]

\* Queue a verified translatable entry, or stage it as is in a dry run.
Queue(st, opts, e, text, ph, ki) ==
    IF ~opts.dry
    THEN [st EXCEPT !.translatable = Append(@, text),
                    !.cache = IF ~opts.dc
                              THEN AddEntry(@, opts.lang, e.key, e.value)
                              ELSE @,
                    !.cached = Append(@, StagedTranslate(e, ph.some, ph.names,
                                                         ki.some, ki.index))]
    ELSE [st EXCEPT !.cached = Append(@, StagedEntry(e))]

\* A faulty iteration that records the template text of an overridden key
\* in the cache.
PrepareEntryCachingOverridden(t, d, opts, st, i) ==
    LET e == t[i]
        k == e.key
    IN  IF st.err.kind # "none" THEN st
        ELSE IF Skipped(d, opts.inval, k) THEN st
        ELSE IF Overridden(opts.ov, k)
        THEN [st EXCEPT !.cache = AddEntry(@, opts.lang, k, e.value)]
        ELSE IF IsTranslatable(e)
        THEN LET ph == PlaceholdersOf(t, k)
                 text == e.value.text
                 verr == IF ph.some THEN Verify(ph.names, text) ELSE NoErr
                 protected == IF ph.some THEN Protect(text, ph.names) ELSE text
             IN  IF ph.err.kind # "none" THEN [st EXCEPT !.err = ph.err]
                 ELSE IF verr.kind # "none" THEN [st EXCEPT !.err = verr]
                 ELSE Queue(st, opts, e, protected, ph, KeyIndex(t, d, k))
        ELSE [st EXCEPT !.cached = Append(@, StagedEntry(e))]

\* One iteration of the loop over template.entries().
PrepareEntry(t, d, opts, st, i) ==
    LET e == t[i]
        k == e.key
    IN  IF st.err.kind # "none" THEN st
        ELSE IF Skipped(d, opts.inval, k) THEN st
        ELSE IF Overridden(opts.ov, k) THEN st
        ELSE IF IsTranslatable(e)
        THEN LET ph == PlaceholdersOf(t, k)
                 text == e.value.text
                 verr == IF ph.some THEN Verify(ph.names, text) ELSE NoErr
                 protected == IF ph.some THEN Protect(text, ph.names) ELSE text
             IN  IF ph.err.kind # "none" THEN [st EXCEPT !.err = ph.err]
                 ELSE IF verr.kind # "none" THEN [st EXCEPT !.err = verr]
                 ELSE Queue(st, opts, e, protected, ph, KeyIndex(t, d, k))
        ELSE [st EXCEPT !.cached = Append(@, StagedEntry(e))]

RECURSIVE PrepareFrom(_, _, _, _, _)
\* The loop over template.entries(), from entry i on.
PrepareFrom(t, d, opts, st, i) ==
    IF i > Len(t)
    THEN st
    ELSE PrepareFrom(t, d, opts, PrepareEntry(t, d, opts, st, i), i + 1)

RECURSIVE RemoveKeys(_, _)
\* output.remove(key) for every key of diff.delete.
RemoveKeys(b, ks) ==
    IF ks = {}
    THEN b
    ELSE LET k == CHOOSE k \in ks : TRUE
         IN  RemoveKeys(Remove(b, k), ks \ {k})

RECURSIVE RemoveEntries(_, _, _)
\* cache.remove_entry(lang, key) for every key of diff.delete.
RemoveEntries(c, lang, ks) ==
    IF ks = {}
    THEN c
    ELSE LET k == CHOOSE k \in ks : TRUE
         IN  RemoveEntries(RemoveEntry(c, lang, k), lang, ks \ {k})

\* The insertion of one restored translation into the output bundle.
InsertTranslated(out, c, translation) ==
    IF c.hasIndex
    THEN IF c.index < Len(out)
         THEN ShiftInsert(out, c.index, c.key, Str(translation))
         ELSE Insert(out, c.key, Str(translation))
    ELSE Insert(out, c.key, Str(translation))

\* A faulty loop that writes none of the staged entries.
ApplyCachedNothing(out, cached, trs) == out

RECURSIVE ApplyCachedReversed(_, _, _)
\* A faulty loop that hands out the translations from the last to the first.
ApplyCachedReversed(out, cached, trs) ==
    IF cached = <<>>
    THEN out
    ELSE LET c == Head(cached)
         IN  IF c.tag = "Entry"
             THEN ApplyCachedReversed(Insert(out, c.key, c.value), Tail(cached), trs)
             ELSE LET translated == trs[Len(trs)]
                      translation == IF c.some
                                     THEN Restore(translated, c.names)
                                     ELSE translated
                  IN  ApplyCachedReversed(InsertTranslated(out, c, translation),
                                          Tail(cached), SubSeq(trs, 1, Len(trs) - 1))

RECURSIVE ApplyCached(_, _, _)
\* The loop over the staged entries once the translations are received.
ApplyCached(out, cached, trs) ==
    IF cached = <<>>
    THEN out
    ELSE LET c == Head(cached)
         IN  IF c.tag = "Entry"
             THEN ApplyCached(Insert(out, c.key, c.value), Tail(cached), trs)
             ELSE LET translated == Head(trs)
                      translation == IF c.some
                                     THEN Restore(translated, c.names)
                                     ELSE translated
                  IN  ApplyCached(InsertTranslated(out, c, translation),
                                  Tail(cached), Tail(trs))

RECURSIVE ApplyOverrides(_, _)
\* output.insert_entry(entry) for every entry of the override bundle.
ApplyOverrides(out, entries) ==
    IF entries = <<>>
    THEN out
    ELSE ApplyOverrides(Insert(out, Head(entries).key, Head(entries).value),
                        Tail(entries))

\* A faulty request builder that sends one request per string.
RequestPerText(texts) == [i \in DOMAIN texts |-> <<texts[i]>>]

\* The backend requests of one call: one TranslateTextRequest holding all
\* the queued texts, issued only when some text was queued.
Requests(texts) == IF texts # <<>> THEN <<texts>> ELSE <<>>

\* The initial state of the loop of translate().
Staging(c0) ==
    [cached |-> <<>>, translatable |-> <<>>, cache |-> c0, err |-> NoErr]

\* The outcome of a call that returned Err.
Failed(err, d, st, c, reqs) ==
    [err |-> err, diff |-> d, staged |-> st.cached, requests |-> reqs,
     length |-> 0, output |-> <<>>, cache |-> c, written |-> FALSE]

\* translate(): target is the optional bundle file of the language, c0 the
\* cache of the context, resp what the backend does with a request.
TranslateFn(tmpl, target, c0, opts, resp) ==
    LET output0 == target.contents
        d == Diff(tmpl, output0, GetFile(c0, opts.lang))
        st == PrepareFrom(tmpl, d, opts, Staging(c0), 1)
        output1 == RemoveKeys(output0, d.delete)
        cache1 == RemoveEntries(st.cache, opts.lang, d.delete)
        length == Len(st.translatable)
        trs == BackendTranslations(resp, opts.lang, st.translatable)
    IN  IF st.err.kind # "none"
        THEN Failed(st.err, d, st, st.cache, <<>>)
        ELSE IF length > 0 /\ resp = "fail"
        THEN Failed(DeeplError, d, st, cache1, Requests(st.translatable))
        ELSE IF length > 0 /\ Len(trs) # length
        THEN Failed(TranslationLength(length, Len(trs)), d, st, cache1,
                    Requests(st.translatable))
        ELSE LET output2 == IF length > 0
                            THEN ApplyCached(output1, st.cached, trs)
                            ELSE output1
                 output3 == IF opts.ov.present
                            THEN ApplyOverrides(output2, opts.ov.contents)
                            ELSE output2
             IN  [err |-> NoErr, diff |-> d, staged |-> st.cached,
                  requests |-> Requests(st.translatable), length |-> length,
                  output |-> output3, cache |-> cache1, written |-> ~opts.dc]

----------------------------------------------------------------------------
(* The projects and the inputs the behaviours start from                   *)

A1 == <<"Hi", "{n}">>
A0 == <<"Hello", "{n}">>
A2 == <<"Hi">>
B1 == <<"Bye">>
B0 == <<"Ciao">>
Old == Str(<<"old">>)
Salut == Str(<<"Salut">>)

TemplateSet ==
    { <<Entry("a", Str(A1)), Entry("@a", Meta(<<"n">>)), Entry("b", Str(B1))>>,
      <<Entry("b", Str(B1)), Entry("a", Str(A1))>>,
      <<Entry("b", Str(B1)), Entry("a", Str(A2)), Entry("@a", Meta(<<"n">>))>>,
      <<Entry("a", Str(A1)), Entry("@a", Obj), Entry("b", Num)>>,
      <<Entry("@a", Meta(<<"n">>)), Entry("a", Str(A1))>> }

TargetSet ==
    { None,
      Some(<<Entry("b", Old)>>),
      Some(<<Entry("a", Old), Entry("b", Old)>>),
      Some(<<Entry("b", Old), Entry("a", Old)>>),
      Some(<<Entry("a", Old), Entry("@a", Meta(<<"n">>)), Entry("b", Old)>>) }

CacheSet ==
    { EmptyCache,
      [l \in Langs |->
          IF l = "FR"
          THEN Some(<<Entry("a", Str(A1)), Entry("b", Str(B1))>>)
          ELSE Some(<<Entry("a", Str(A0))>>)],
      [l \in Langs |->
          IF l = "FR"
          THEN Some(<<Entry("a", Str(A0)), Entry("b", Str(B0))>>)
          ELSE Some(<<Entry("a", Str(A0))>>)] }

InvalidationSet == {NoInvalidation, InvalidateAll, InvalidateKeys(<<"b">>)}

OverrideSet == {None, Some(<<Entry("b", Salut)>>)}

\* What a call keeps of the call before it, when that call was made the
\* same way on the same files with the same overrides and invalidation.
NoPrev == [same |-> FALSE, dry |-> FALSE,
           diff |-> [create |-> {}, delete |-> {}, update |-> {}]]

NoCall ==
    [via |-> "none", lang |-> "FR", dry |-> FALSE, dc |-> FALSE,
     inval |-> NoInvalidation, ov |-> None, template |-> <<>>, target |-> None,
     cacheBefore |-> EmptyCache, diskBefore |-> EmptyCache,
     err |-> NoErr, diff |-> [create |-> {}, delete |-> {}, update |-> {}],
     staged |-> <<>>, requests |-> <<>>, length |-> 0, output |-> <<>>,
     cacheAfter |-> EmptyCache, written |-> FALSE, prev |-> NoPrev]

\* No Update command was started.
NoUpdate ==
    [started |-> FALSE, order |-> <<>>, todo |-> <<>>, apply |-> FALSE,
     inval |-> NoInvalidation, ov |-> [l \in Langs |-> None],
     done |-> <<>>, failed |-> FALSE,
     files0 |-> [l \in Langs |-> None], disk0 |-> EmptyCache]

Init ==
    /\ template \in TemplateSet
    /\ \E x \in TargetSet : files = [l \in Langs |-> IF l = "FR" THEN x ELSE None]
    /\ disk \in CacheSet
    /\ cache = disk
    /\ last = NoCall
    /\ diffOut = [l \in {} |-> 0]
    /\ ncalls = 0
    /\ templateExists = TRUE
    /\ name_prefix = App
    /\ dir = {}
    /\ listed = NoListing
    /\ before = NoCall
    /\ update = NoUpdate

\* A faulty call that goes on with an empty template when the file is missing.
TranslateEmptyTemplate(target, c0, opts, resp) ==
    TranslateFn(template, target, c0, opts, resp)

\* translate() on the files of the arb directory: template_content() fails
\* before anything else when the template file cannot be read.
TranslateOrNoTemplate(target, c0, opts, resp) ==
    IF templateExists
    THEN TranslateFn(template, target, c0, opts, resp)
    ELSE Failed(IoError, [create |-> {}, delete |-> {}, update |-> {}],
                Staging(c0), c0, <<>>)

SameInputs(via, opts, target) ==
    /\ last.via = via
    /\ last.lang = opts.lang
    /\ last.inval = opts.inval
    /\ last.ov = opts.ov
    /\ last.template = template
    /\ last.target = target

\* What a call leaves in last.
CallRecord(via, opts, target, c0, r) ==
    [via |-> via, lang |-> opts.lang, dry |-> opts.dry, dc |-> opts.dc,
     inval |-> opts.inval, ov |-> opts.ov, template |-> template,
     target |-> target, cacheBefore |-> c0, diskBefore |-> disk,
     err |-> r.err, diff |-> r.diff, staged |-> r.staged,
     requests |-> r.requests, length |-> r.length, output |-> r.output,
     cacheAfter |-> r.cache, written |-> r.written,
     prev |-> IF SameInputs(via, opts, target)
              THEN [same |-> TRUE, dry |-> last.dry, diff |-> last.diff]
              ELSE NoPrev]

\* A faulty write_cache that writes only the bundle of the language.
WriteCacheMerging(c, onDisk, lang) == [onDisk EXCEPT ![lang] = c[lang]]

\* Intl::write_cache: the whole cache file is written from the in-memory
\* cache of the context, whatever the file holds.
WriteCache(c, onDisk, lang) == c

\* Intl::translate on the context, called through the library.
Translate(lang, dry, dc, inval, ov, resp) ==
    LET opts == [lang |-> lang, dry |-> dry, dc |-> dc, inval |-> inval, ov |-> ov]
        r == TranslateOrNoTemplate(files[lang], cache, opts, resp)
    IN  /\ ncalls < MaxCalls
        /\ last' = CallRecord("lib", opts, files[lang], cache, r)
        /\ cache' = last'.cacheAfter
        /\ disk' = IF last'.written THEN WriteCache(last'.cacheAfter, disk, lang) ELSE disk
        /\ ncalls' = ncalls + 1
        /\ UNCHANGED <<template, files, diffOut, templateExists, name_prefix, dir, listed>>

\* The Translate command: a new context reads the cache file, translates
\* the language and, with --apply, writes the bundle file.
TranslateCommand(lang, apply, inval, ov, resp) ==
    LET opts == [lang |-> lang, dry |-> ~apply, dc |-> FALSE, inval |-> inval, ov |-> ov]
        r == TranslateOrNoTemplate(files[lang], disk, opts, resp)
    IN  /\ ncalls < MaxCalls
        /\ last' = CallRecord("cli", opts, files[lang], disk, r)
        /\ disk' = IF last'.written THEN WriteCache(last'.cacheAfter, disk, lang) ELSE disk
        /\ files' = IF apply /\ last'.err.kind = "none"
                    THEN [files EXCEPT ![lang] = Some(last'.output)]
                    ELSE files
        /\ ncalls' = ncalls + 1
        /\ UNCHANGED <<template, cache, diffOut, templateExists, name_prefix, dir, listed>>

\* What the backend may do with the request of a call; a dry run makes none.
ResponsesOf(dry) == IF dry THEN {"ok"} ELSE Responses

Next ==
    /\ UNCHANGED <<before, update>>
    /\ \/ \E lang \in CallLangs, dry \in BOOLEAN, dc \in BOOLEAN,
             inval \in InvalidationSet, ov \in OverrideSet :
               \E resp \in ResponsesOf(dry) :
                   Translate(lang, dry, dc, inval, ov, resp)
       \/ \E lang \in CallLangs, apply \in BOOLEAN,
             inval \in InvalidationSet, ov \in OverrideSet :
               \E resp \in ResponsesOf(~apply) :
                   TranslateCommand(lang, apply, inval, ov, resp)

Spec == Init /\ [][Next]_vars

----------------------------------------------------------------------------
(* The Diff command, and the specification of the claims about diff        *)

\* Command::Diff: a new context reads the cache file and diffs the template
\* with the bundle of every language given.
DiffCommand(langs) ==
    /\ diffOut' = IF templateExists
                  THEN [l \in langs |->
                          Diff(template, files[l].contents, GetFile(disk, l))]
                  ELSE diffOut
    /\ UNCHANGED <<template, files, cache, disk, last, ncalls,
                   templateExists, name_prefix, dir, listed>>

DiffEntries ==
    { Entry("a", Str(A1)), Entry("a", Str(A0)),
      Entry("@a", Meta(<<"n">>)), Entry("b", Str(B1)) }

BundlesUpTo(n) ==
    {b \in UNION {[1..m -> DiffEntries] : m \in 0..n} : IsBundle(b)}

InitDiff ==
    /\ template \in BundlesUpTo(MaxLen)
    /\ \E x \in {None} \cup {Some(b) : b \in BundlesUpTo(MaxLen)} :
          files = [l \in Langs |-> IF l = "FR" THEN x ELSE None]
    /\ \E c \in {None} \cup {Some(b) : b \in BundlesUpTo(MaxLen)} :
          disk = [l \in Langs |-> IF l = "FR" THEN c ELSE None]
    /\ cache = disk
    /\ last = NoCall
    /\ diffOut = [l \in {} |-> 0]
    /\ ncalls = 0
    /\ templateExists = TRUE
    /\ name_prefix = App
    /\ dir = {}
    /\ listed = NoListing
    /\ before = NoCall
    /\ update = NoUpdate

NextDiff ==
    /\ UNCHANGED <<before, update>>
    /\ \E langs \in SUBSET CallLangs : DiffCommand(langs)

SpecDiff == InitDiff /\ [][NextDiff]_vars

\* Is k a key of bundle b with value v.
Holds(b, k, v) == \E i \in DOMAIN b : b[i].key = k /\ b[i].value = v

\* C1: for every template T, target X and cache, diff returns
\* create = keys(T) \ keys(X) and delete = keys(X) \ keys(T), keys compared
\* as unordered sets and '@' keys included; create and delete share no key.
C1_CreateDelete ==
    \A l \in DOMAIN diffOut :
        LET d == diffOut[l]
            X == files[l].contents
            U == Keys(template) \cup Keys(X) \cup d.create \cup d.delete
        IN  /\ \A k \in U :
                /\ k \in d.create <=> (Has(template, k) /\ ~Has(X, k))
                /\ k \in d.delete <=> (Has(X, k) /\ ~Has(template, k))
            /\ d.create \cap d.delete = {}

\* A diff with a created metadata key and a deleted key, of a target whose
\* shared keys are in another order than in the template.
C1_Witness ==
    \E l \in DOMAIN diffOut :
        /\ "@a" \in diffOut[l].create
        /\ diffOut[l].delete # {}
        /\ Len(template) = 2
        /\ Len(files[l].contents) = 2
        /\ template[1].key = files[l].contents[2].key

\* C2: the update set is exactly the set of keys present in both template
\* and cache whose template value differs from the cached value, whether or
\* not the key is also in create; without a cache bundle update is empty.
C2_Update ==
    \A l \in DOMAIN diffOut :
        LET d == diffOut[l]
            C == disk[l]
        IN  /\ ~C.present => d.update = {}
            /\ \A k \in Keys(template) \cup Keys(C.contents) \cup d.update :
                  k \in d.update <=>
                      /\ C.present
                      /\ \E i \in DOMAIN template, j \in DOMAIN C.contents :
                            /\ template[i].key = k
                            /\ C.contents[j].key = k
                            /\ template[i].value # C.contents[j].value

\* A diff whose update set holds a key that is also in create.
C2_Witness ==
    \E l \in DOMAIN diffOut :
        diffOut[l].update \cap diffOut[l].create # {}

\* C3 as claimed: create, delete and update are pairwise disjoint.
C3_PairwiseDisjoint ==
    \A l \in DOMAIN diffOut :
        /\ diffOut[l].create \cap diffOut[l].delete = {}
        /\ diffOut[l].create \cap diffOut[l].update = {}
        /\ diffOut[l].delete \cap diffOut[l].update = {}

\* C3 as amended: delete is disjoint from create and from update, while
\* create and update share exactly the keys absent from the target whose
\* cached value differs from the template's.
C3_DeleteDisjoint ==
    \A l \in DOMAIN diffOut :
        LET d == diffOut[l]
        IN  /\ d.create \cap d.delete = {}
            /\ d.delete \cap d.update = {}
            /\ d.create \cap d.update =
                  {k \in Keys(template) :
                      /\ ~Has(files[l].contents, k)
                      /\ disk[l].present
                      /\ Has(disk[l].contents, k)
                      /\ ~Holds(disk[l].contents, k, Get(template, k))}

\* A diff with a key in both create and update, and a deleted key that is
\* cached.
C3_Witness ==
    \E l \in DOMAIN diffOut :
        /\ diffOut[l].create \cap diffOut[l].update # {}
        /\ \E k \in diffOut[l].delete : Has(disk[l].contents, k)

----------------------------------------------------------------------------
(* Claims about translate()                                                *)

Called == last.via # "none"

Succeeded == Called /\ last.err.kind = "none"

\* The staged entries that were queued for the backend, in order.
Queued == SelectSeq(last.staged, LAMBDA c : c.tag = "Translate")

QueuedKeys == {Queued[i].key : i \in DOMAIN Queued}

\* The text queued for a staged entry: protected when names are declared.
QueuedText(c) == IF c.some THEN Protect(c.value.text, c.names) ELSE c.value.text

HasOverride(k) == last.ov.present /\ \E i \in DOMAIN last.ov.contents : last.ov.contents[i].key = k

IsInvalidated(k) ==
    \/ last.inval.mode = "all"
    \/ last.inval.mode = "keys" /\ \E i \in DOMAIN last.inval.keys : last.inval.keys[i] = k

\* C4: when translate() succeeds with an override bundle for the target
\* language, no key of the bundle is in the outbound batch or counted in the
\* returned length, and the output holds the override value of every key of
\* the bundle.
C4_Overrides ==
    (Succeeded /\ last.ov.present) =>
        /\ last.length = Len(Queued)
        /\ \A i \in DOMAIN last.ov.contents :
              /\ last.ov.contents[i].key \notin QueuedKeys
              /\ Holds(last.output, last.ov.contents[i].key,
                       last.ov.contents[i].value)

\* A successful call that sent another key to the backend while the
\* overridden key was in create or update, or was invalidated.
C4_Witness ==
    /\ Succeeded
    /\ last.ov.present
    /\ last.length >= 1
    /\ \E i \in DOMAIN last.ov.contents :
          LET k == last.ov.contents[i].key
          IN  /\ Has(last.template, k)
              /\ k \in last.diff.create \cup last.diff.update
              /\ IsInvalidated(k)

C6_FailureLeavesCache ==
    (Called /\ last.err.kind \in {"Deepl", "TranslationLength"}) =>
        /\ last.cacheAfter = last.cacheBefore
        /\ disk = last.diskBefore

\* C7: a dry run followed by a second dry run with the same template,
\* target file, overrides and invalidation yields the same create, update
\* and delete sets.
C7_DryRunTwice ==
    (Called /\ last.dry /\ last.prev.same /\ last.prev.dry) =>
        last.diff = last.prev.diff

\* A second dry run whose cache the first dry run changed, with keys to
\* create, to update and to delete.
C7_Witness ==
    /\ Called
    /\ last.dry
    /\ last.prev.same
    /\ last.prev.dry
    /\ last.diff.create # {}
    /\ last.diff.update # {}
    /\ last.diff.delete # {}
    /\ last.via = "lib"
    /\ last.cacheBefore # last.diskBefore

\* The texts queued for the backend, in order.
QueuedTexts == [i \in DOMAIN Queued |-> QueuedText(Queued[i])]

\* C8 as claimed: each translate() call issues at most one backend request:
\* exactly one, carrying all queued strings, when at least one string was
\* queued, and none when nothing was queued or the call is a dry run.
C8_OneRequestWhenQueued ==
    Called =>
        /\ Len(last.requests) <= 1
        /\ Len(Queued) >= 1 => last.requests = <<QueuedTexts>>
        /\ (Len(Queued) = 0 \/ last.dry) => last.requests = <<>>

\* C8 as amended: exactly one request when at least one string was queued
\* and the call did not stop on a placeholder that failed verification; no
\* request when it stopped there, when nothing was queued or in a dry run.
C8_OneRequestUnlessAborted ==
    Called =>
        /\ Len(last.requests) <= 1
        /\ (Len(Queued) >= 1 /\ last.err.kind # "PlaceholderNotDefined")
              => last.requests = <<QueuedTexts>>
        /\ (Len(Queued) = 0 \/ last.dry \/ last.err.kind = "PlaceholderNotDefined")
              => last.requests = <<>>

\* A call whose single request carried two strings, one of them protected.
C8_Witness ==
    /\ Called
    /\ Len(last.requests) = 1
    /\ Len(last.requests[1]) = 2
    /\ \E i \in DOMAIN Queued : Queued[i].some /\ QueuedText(Queued[i]) # Queued[i].value.text

\* The template keys translate() has to send: translatable, not overridden,
\* and invalidated or in create or update.
KeysToSend ==
    {last.template[i].key : i \in
        {i \in DOMAIN last.template :
            /\ last.template[i].value.kind = "string"
            /\ ~IsPrefixed(last.template[i].key)
            /\ ~HasOverride(last.template[i].key)
            /\ \/ IsInvalidated(last.template[i].key)
               \/ last.template[i].key \in last.diff.create \cup last.diff.update}}

\* C9: in a successful non-dry-run translate() the returned length is the
\* number of strings sent to the backend and the keys sent are exactly the
\* translatable template keys without override that are invalidated or in
\* create or update; in a dry run length is 0.
C9_LengthAndKeysSent ==
    Succeeded =>
        IF last.dry
        THEN last.length = 0 /\ last.requests = <<>>
        ELSE /\ QueuedKeys = KeysToSend
             /\ Len(Queued) = Cardinality(KeysToSend)
             /\ last.length = Len(Queued)
             /\ last.requests = IF last.length = 0 THEN <<>> ELSE <<QueuedTexts>>

\* A successful call that sent a key only because it was listed for
\* invalidation, and sent another key because the template text changed.
C9_Witness ==
    /\ Succeeded
    /\ ~last.dry
    /\ last.inval.mode = "keys"
    /\ last.length = 2
    /\ \E k \in QueuedKeys : IsInvalidated(k) /\ k \notin last.diff.create \cup last.diff.update
    /\ \E k \in QueuedKeys : ~IsInvalidated(k) /\ k \in last.diff.update \ last.diff.create

\* C10 as claimed: after a successful translate() every key of diff.delete
\* is absent from the output bundle and from the cache of the language.
C10_DeletedAbsent ==
    Succeeded =>
        \A k \in last.diff.delete :
            /\ ~Has(last.output, k)
            /\ ~Has(last.cacheAfter[last.lang].contents, k)

\* C10 as amended: every key of diff.delete is absent from the cache of the
\* language, and absent from the output bundle unless the override bundle
\* holds it.
C10_DeletedAbsentUnlessOverridden ==
    Succeeded =>
        \A k \in last.diff.delete :
            /\ ~HasOverride(k) => ~Has(last.output, k)
            /\ ~Has(last.cacheAfter[last.lang].contents, k)

\* A successful call that deleted a key the target and the cache held.
C10_Witness ==
    /\ Succeeded
    /\ \E k \in last.diff.delete :
          /\ ~HasOverride(k)
          /\ Has(last.target.contents, k)
          /\ Has(last.cacheBefore[last.lang].contents, k)
          /\ ~Has(last.output, k)

----------------------------------------------------------------------------
(* Single calls of translate() on a wider choice of files and options      *)

\* Bound on the number of calls of one behaviour of SpecCall.
MaxRichCalls == 1

Bm == <<"Bye", "{m}">>

RichTemplateSet ==
    TemplateSet \cup
    { <<Entry("a", Str(A1)), Entry("@a", Meta(<<"n">>)),
        Entry("b", Str(Bm)), Entry("@b", Meta(<<"m">>))>>,
      <<Entry("@b", Obj), Entry("b", Str(Bm)), Entry("@a", Meta(<<"n">>)),
        Entry("a", Str(A1))>>,
      <<Entry("b", Str(B1)), Entry("a", Str(A1)), Entry("@a", Meta(<<"n">>))>> }

RichTargetSet ==
    TargetSet \cup
    { Some(<<Entry("@a", Meta(<<"n">>)), Entry("b", Old)>>),
      Some(<<Entry("a", Old), Entry("@a", Meta(<<"n">>))>>),
      Some(<<Entry("a", Old), Entry("b", Num)>>) }

RichInvalidationSet == InvalidationSet \cup {InvalidateKeys(<<"a">>)}

RichOverrideSet == OverrideSet \cup {Some(<<Entry("a", Salut)>>)}

\* The arb directory before the call: the template file may be missing.
InitCall ==
    /\ \/ templateExists = TRUE /\ template \in RichTemplateSet
       \/ templateExists = FALSE /\ template = <<>>
    /\ \E x \in RichTargetSet : files = [l \in Langs |-> IF l = "FR" THEN x ELSE None]
    /\ disk \in CacheSet
    /\ cache = disk
    /\ last = NoCall
    /\ diffOut = [l \in {} |-> 0]
    /\ ncalls = 0
    /\ name_prefix = App
    /\ dir = {}
    /\ listed = NoListing
    /\ before = NoCall
    /\ update = NoUpdate

NextCall ==
    /\ ncalls < MaxRichCalls
    /\ UNCHANGED <<before, update>>
    /\ \/ \E lang \in CallLangs, dry \in BOOLEAN, dc \in BOOLEAN,
             inval \in RichInvalidationSet, ov \in RichOverrideSet :
               \E resp \in ResponsesOf(dry) :
                   Translate(lang, dry, dc, inval, ov, resp)
       \/ \E lang \in CallLangs, apply \in BOOLEAN,
             inval \in RichInvalidationSet, ov \in RichOverrideSet :
               \E resp \in ResponsesOf(~apply) :
                   TranslateCommand(lang, apply, inval, ov, resp)

SpecCall == InitCall /\ [][NextCall]_vars

----------------------------------------------------------------------------
(* translate() with a backend that returns its input unchanged             *)

\* Bound on the number of tokens of a source text.
MaxText == 3

Tokens == {"Hi", Brace("n"), Brace("m"), PhTag("n")}

TextsUpTo(n) == UNION {[1..m -> Tokens] : m \in 1..n}

NameLists == {<<"n">>, <<"m">>, <<"n", "m">>, <<"m", "n">>}

InitRoundTrip ==
    /\ \E text \in TextsUpTo(MaxText) :
          \/ \E names \in NameLists \cup {<<>>} :
                template = <<Entry("a", Str(text)), Entry("@a", Meta(names))>>
          \/ template = <<Entry("a", Str(text)), Entry("@a", Obj)>>
          \/ template = <<Entry("a", Str(text))>>
    /\ templateExists = TRUE
    /\ files = [l \in Langs |-> None]
    /\ disk = EmptyCache
    /\ cache = disk
    /\ last = NoCall
    /\ diffOut = [l \in {} |-> 0]
    /\ ncalls = 0
    /\ name_prefix = App
    /\ dir = {}
    /\ listed = NoListing
    /\ before = NoCall
    /\ update = NoUpdate

NextRoundTrip ==
    /\ ncalls < MaxRichCalls
    /\ UNCHANGED <<before, update>>
    /\ \E dc \in BOOLEAN :
          Translate("FR", FALSE, dc, NoInvalidation, None, "echo")

SpecRoundTrip == InitRoundTrip /\ [][NextRoundTrip]_vars

\* C11: for every source text that passes verification against its declared
\* placeholder names, protecting it, passing it through a backend that
\* returns its input unchanged and restoring it yields a text that contains
\* {name} for every declared name, and that equals the original text when
\* the original contained no <ph>name</ph> marker of a declared name.
C11_RoundTrip ==
    Succeeded =>
        \A j \in DOMAIN Queued :
            LET c == Queued[j]
                out == Get(last.output, c.key).text
            IN  c.some =>
                  /\ \A i \in DOMAIN c.names : Contains(out, Brace(c.names[i]))
                  /\ (\A i \in DOMAIN c.names : ~Contains(c.value.text, PhTag(c.names[i])))
                        => out = c.value.text

\* A round trip of a text with two declared placeholders, one of them
\* occurring twice, that gave the original text back.
C11_Witness ==
    /\ Succeeded
    /\ \E j \in DOMAIN Queued :
          /\ Len(Queued[j].names) = 2
          /\ Queued[j].value.text = <<Brace("n"), Brace("m"), Brace("n")>>
          /\ last.requests = <<<<(<<PhTag("n"), PhTag("m"), Brace("n")>>)>>>>
          /\ Get(last.output, Queued[j].key).text = Queued[j].value.text

\* C12: every pass-through entry staged during translate() (a
\* non-translatable template entry, or the stand-in of a translatable one in
\* a dry run) is written to the output bundle of a successful call, also
\* when no string was queued for the backend.
C12_PassThroughWritten ==
    Succeeded =>
        \A i \in DOMAIN last.staged :
            last.staged[i].tag = "Entry"
                => Holds(last.output, last.staged[i].key, last.staged[i].value)

\* The template entries that reach the translation stage: translatable, not
\* overridden, and invalidated or in create or update.
ReachTranslation ==
    {i \in DOMAIN last.template :
        /\ last.template[i].value.kind = "string"
        /\ ~IsPrefixed(last.template[i].key)
        /\ ~HasOverride(last.template[i].key)
        /\ \/ IsInvalidated(last.template[i].key)
           \/ last.template[i].key \in last.diff.create \cup last.diff.update}

\* Does the metadata entry of key k declare a placeholder name whose {name}
\* is missing from text.
DeclaresMissing(k, text) ==
    \E i \in DOMAIN last.template :
        /\ last.template[i].key = MetaKey(k)
        /\ last.template[i].value.ph
        /\ \E n \in DOMAIN last.template[i].value.names :
              ~Contains(text, Brace(last.template[i].value.names[n]))

\* C13: if any key that reaches the translation stage declares a
\* placeholder name whose {name} is missing from its source text,
\* translate() returns PlaceholderNotDefined and no backend request is
\* issued during that call, however many other keys were already queued.
C13_VerificationAborts ==
    (Called /\ \E i \in ReachTranslation :
                  DeclaresMissing(last.template[i].key, last.template[i].value.text))
        => /\ last.err.kind = "PlaceholderNotDefined"
           /\ last.requests = <<>>

\* A call that was not a dry run, had queued a string and then stopped on a
\* key whose text lacks a declared placeholder.
C13_Witness ==
    /\ Called
    /\ ~last.dry
    /\ last.err.kind = "PlaceholderNotDefined"
    /\ last.err.name = "n"
    /\ Len(Queued) >= 1
    /\ last.requests = <<>>

\* C14: translate() with no bundle file for the target language does not
\* fail for that reason: it starts from an empty bundle, so every template
\* key is in create; with a missing template file translate() returns an
\* error and issues no backend request.
C14_MissingFiles ==
    Called =>
        /\ (templateExists /\ ~last.target.present)
              => /\ last.err.kind \notin {"Io", "NoFile"}
                 /\ last.diff.create = {last.template[i].key : i \in DOMAIN last.template}
                 /\ last.diff.delete = {}
        /\ ~templateExists
              => /\ last.err.kind # "none"
                 /\ last.requests = <<>>

\* A successful call without a bundle file for the language, which created
\* every key of the template.
C14_Witness ==
    /\ Succeeded
    /\ ~last.dry
    /\ templateExists
    /\ ~last.target.present
    /\ last.diff.create # {}
    /\ \A i \in DOMAIN last.template : Has(last.output, last.template[i].key)
    /\ last.length >= 1

----------------------------------------------------------------------------
(* Bundle files written for languages, and list_translated()               *)

\* Bound on the number of bundle files of the arb directory.
MaxFiles == 2

PrefixSet == {App, <<"e", "n">>}

\* translate_language with --apply: the bundle of the language is written
\* to file_path(lang), named by format_file_name.
WriteBundle(lang) ==
    /\ Cardinality(dir) < MaxFiles
    /\ dir' = dir \cup {FormatFileName(name_prefix, lang)}
    /\ UNCHANGED <<template, files, cache, disk, last, diffOut, ncalls,
                   templateExists, name_prefix, listed>>

\* The languages parse_file_name reads from the names of a directory.
ParsedLangs(prefix, names) ==
    {ParseFileName(prefix, n).lang : n \in {x \in names : ParseFileName(prefix, x).some}}

\* Intl::list_directory on the arb directory: a map from each language read
\* from a file name to a path; of two files read as the same language the
\* one that read_dir yields last is kept.
ListTranslated ==
    /\ \E found \in [ParsedLangs(name_prefix, dir) -> dir] :
          /\ \A l \in DOMAIN found : ParseFileName(name_prefix, found[l]).lang = l
          /\ listed' = [names |-> dir, found |-> found]
    /\ UNCHANGED <<template, files, cache, disk, last, diffOut, ncalls,
                   templateExists, name_prefix, dir>>

InitNames ==
    /\ name_prefix \in PrefixSet
    /\ dir = {}
    /\ listed = NoListing
    /\ before = NoCall
    /\ update = NoUpdate
    /\ template = <<>>
    /\ templateExists = TRUE
    /\ files = [l \in Langs |-> None]
    /\ disk = EmptyCache
    /\ cache = disk
    /\ last = NoCall
    /\ diffOut = [l \in {} |-> 0]
    /\ ncalls = 0

NextNames ==
    /\ UNCHANGED <<before, update>>
    /\ \/ \E lang \in SupportedLangs : WriteBundle(lang)
       \/ ListTranslated

SpecNames == InitNames /\ [][NextNames]_vars

\* C15: for every supported language L the file name produced by
\* format_file_name(L) is parsed back by parse_file_name to L, so every
\* bundle written for a language is found by list_translated.
C15_FileNameRoundTrip ==
    \A l \in SupportedLangs :
        FormatFileName(name_prefix, l) \in listed.names
            => /\ ParseFileName(name_prefix, FormatFileName(name_prefix, l)).some
               /\ ParseFileName(name_prefix, FormatFileName(name_prefix, l)).lang = l
               /\ l \in DOMAIN listed.found
               /\ listed.found[l] = FormatFileName(name_prefix, l)

\* C16: when translate() is called with disable_cache the cache is not
\* mutated: the in-memory cache after the call equals the cache before the
\* call for every language, and the cache file is not written.
C16_DisableCache ==
    (Called /\ last.dc) =>
        /\ \A l \in Langs : last.cacheAfter[l] = last.cacheBefore[l]
        /\ ~last.written
        /\ disk = last.diskBefore

\* C17: after a successful non-dry-run translate() with caching enabled, for
\* every key sent to the backend the cache bundle of the target language
\* holds the template's source text of the key, not the translated and not
\* the protected text.
C17_CacheHoldsSource ==
    (Succeeded /\ ~last.dry /\ ~last.dc) =>
        \A j \in DOMAIN Queued :
            \E i \in DOMAIN last.template :
                /\ last.template[i].key = Queued[j].key
                /\ Holds(last.cacheAfter[last.lang].contents,
                         Queued[j].key, last.template[i].value)

\* A call that sent a protected text and cached the source text, which is
\* neither the text sent nor the translation stored in the output.
C17_Witness ==
    /\ Succeeded
    /\ ~last.dry
    /\ ~last.dc
    /\ \E j \in DOMAIN Queued :
          LET k == Queued[j].key
              cached == Get(last.cacheAfter[last.lang].contents, k)
          IN  /\ Has(last.cacheAfter[last.lang].contents, k)
              /\ ~Has(last.cacheBefore[last.lang].contents, k)
              /\ cached.text # last.requests[1][j]
              /\ cached # Get(last.output, k)
              /\ cached.text = A1

\* C18: a translate() call for language L, successful or failed, leaves the
\* in-memory cache bundle of every other language unchanged, and its diff
\* is the diff of the template and the target with the cache bundle of L.
C18_OtherLanguagesUntouched ==
    Called =>
        /\ \A l \in Langs \ {last.lang} : last.cacheAfter[l] = last.cacheBefore[l]
        /\ templateExists =>
              last.diff = Diff(last.template, last.target.contents,
                               last.cacheBefore[last.lang])

\* A call that changed the cache bundle of its language while another
\* language had a different, non-empty cache bundle, and a call that failed.
C18_Witness ==
    /\ Called
    /\ last.cacheAfter[last.lang] # last.cacheBefore[last.lang]
    /\ \E l \in Langs \ {last.lang} :
          /\ last.cacheBefore[l].present
          /\ last.cacheBefore[l].contents # <<>>
          /\ last.cacheBefore[l] # last.cacheBefore[last.lang]
    /\ last.err.kind = "TranslationLength"

\* C19: in a successful non-dry-run translate() the j-th translation
\* returned by the backend is stored, after placeholder restoration with
\* the placeholder names of that key, under the key whose text was the j-th
\* string of the request, for every j; pass-through entries staged in
\* between do not shift this pairing.
C19_TranslationsPaired ==
    (Succeeded /\ ~last.dry /\ last.length > 0) =>
        /\ Len(last.requests[1]) = Len(Queued)
        /\ \A j \in DOMAIN Queued :
              LET c == Queued[j]
                  returned == BackendText(last.lang, last.requests[1][j])
                  restored == IF c.some THEN Restore(returned, c.names) ELSE returned
              IN  /\ last.requests[1][j] = QueuedText(c)
                  /\ Holds(last.output, c.key, Str(restored))
                  /\ restored = <<last.lang>> \o c.value.text

\* A call that staged a pass-through entry between two translated keys that
\* declare different placeholder names.
C19_Witness ==
    /\ Succeeded
    /\ ~last.dry
    /\ last.length = 2
    /\ \E i, j, k \in DOMAIN last.staged :
          /\ i < j /\ j < k
          /\ last.staged[i].tag = "Translate"
          /\ last.staged[j].tag = "Entry"
          /\ last.staged[k].tag = "Translate"
          /\ last.staged[i].some
          /\ last.staged[k].some
          /\ last.staged[i].names # last.staged[k].names

\* The keys of the target bundle that are not deleted.
KeptKeys == {last.target.contents[i].key : i \in DOMAIN last.target.contents} \ last.diff.delete

\* C20: when a key already present in the target bundle is translated again
\* (it is in update or invalidated, and not in create), the new translation
\* replaces its value in place: the key keeps its relative order with
\* respect to every other key that was in the target and is not deleted.
C20_RetranslatedInPlace ==
    (Succeeded /\ ~last.dry) =>
        \A k \in QueuedKeys \cap KeptKeys :
            /\ k \notin last.diff.create
            /\ Has(last.output, k)
            /\ \A x \in KeptKeys \ {k} :
                  /\ Has(last.output, x)
                  /\ (PosOf(last.target.contents, k) < PosOf(last.target.contents, x))
                        <=> (PosOf(last.output, k) < PosOf(last.output, x))

\* A key of the target that was translated again and stayed before another
\* key of the target, while a created key was inserted in front of both.
C20_Witness ==
    /\ Succeeded
    /\ ~last.dry
    /\ \E k \in QueuedKeys \cap KeptKeys :
          /\ Get(last.output, k) # Get(last.target.contents, k)
          /\ \E x \in KeptKeys \ {k} :
                PosOf(last.output, k) < PosOf(last.output, x)
          /\ \E n \in QueuedKeys \cap last.diff.create :
                /\ PosOf(last.output, n) < PosOf(last.output, k)
                /\ PosOf(last.output, k) > PosOf(last.target.contents, k)

\* The entry of key k in the cache bundle of the language of the call is
\* what it was before the call: absent, or present with the same value.
CacheEntryKept(k) ==
    LET b0 == last.cacheBefore[last.lang].contents
        b1 == last.cacheAfter[last.lang].contents
    IN  /\ Has(b0, k) <=> Has(b1, k)
        /\ Has(b0, k) => Get(b0, k) = Get(b1, k)

\* C21: in any successful translate(), a key that is in both template and
\* target, is not invalidated, is in neither create nor update, and has no
\* override keeps in the output exactly the value it had in the target, and
\* is neither sent to the backend nor written to the cache.
C21_UnchangedKeyKept ==
    Succeeded =>
        \A i \in DOMAIN last.template :
            LET k == last.template[i].key
            IN  ( /\ Has(last.target.contents, k)
                  /\ ~IsInvalidated(k)
                  /\ k \notin last.diff.create \cup last.diff.update
                  /\ ~HasOverride(k) )
                => /\ Holds(last.output, k, Get(last.target.contents, k))
                   /\ \A j \in DOMAIN last.staged : last.staged[j].key # k
                   /\ CacheEntryKept(k)

\* A successful call that translated one key and left another, translatable
\* key of the target as it was, although its value is not the template's.
C21_Witness ==
    /\ Succeeded
    /\ ~last.dry
    /\ last.length >= 1
    /\ \E i \in DOMAIN last.template :
          LET k == last.template[i].key
          IN  /\ last.template[i].value.kind = "string"
              /\ ~IsPrefixed(k)
              /\ Has(last.target.contents, k)
              /\ ~IsInvalidated(k)
              /\ k \notin last.diff.create \cup last.diff.update
              /\ ~HasOverride(k)
              /\ Get(last.target.contents, k) # last.template[i].value
              /\ Holds(last.output, k, Get(last.target.contents, k))

\* Do the keys that bundles b and t share appear in the same relative order.
SameRelativeOrder(b, t) ==
    \A i, j \in DOMAIN b :
        (i < j /\ Has(t, b[i].key) /\ Has(t, b[j].key))
            => PosOf(t, b[i].key) < PosOf(t, b[j].key)

\* C22: after a successful non-dry-run translate() without overrides,
\* starting from a target whose keys appear in the same relative order as in
\* the template, the keys of the output appear in the same relative order as
\* in the template, created '@' entries and non-string entries included.
C22_OrderPreserved ==
    ( /\ Succeeded
      /\ ~last.dry
      /\ ~last.ov.present
      /\ SameRelativeOrder(last.target.contents, last.template) )
        => SameRelativeOrder(last.output, last.template)

\* C23: for a template key that has an override in the target language,
\* translate() never adds or overwrites the entry of that key in the cache,
\* whatever the diff class or the invalidation status of the key.
C23_OverriddenNotCached ==
    Called =>
        \A i \in DOMAIN last.template :
            HasOverride(last.template[i].key) => CacheEntryKept(last.template[i].key)

\* A successful call with caching that cached one translated key and left
\* alone the stale or missing cache entry of an overridden key that was
\* created, updated or invalidated.
C23_Witness ==
    /\ Succeeded
    /\ ~last.dry
    /\ ~last.dc
    /\ last.length >= 1
    /\ last.cacheAfter # last.cacheBefore
    /\ \E i \in DOMAIN last.template :
          LET k == last.template[i].key
          IN  /\ HasOverride(k)
              /\ last.template[i].value.kind = "string"
              /\ k \in last.diff.create \cup last.diff.update \/ IsInvalidated(k)
              /\ ~Holds(last.cacheAfter[last.lang].contents, k, last.template[i].value)

\* The placeholder names the template declares for its key "a": those of the
\* placeholders object of "@a", none without such an entry or object.
DeclaredNames ==
    IF \E i \in DOMAIN last.template :
          last.template[i].key = "@a" /\ last.template[i].value.ph
    THEN last.template[CHOOSE i \in DOMAIN last.template :
                          last.template[i].key = "@a"].value.names
    ELSE <<>>

\* C24: verify(text) returns Ok exactly when the text contains {name} for
\* every declared name; otherwise it returns PlaceholderNotDefined with the
\* first declared name, in declaration order, whose {name} is absent, and
\* the text; a key with no metadata entry or no placeholders object declares
\* no names and never fails verification.
C24_Verify ==
    Called =>
        LET text == last.template[1].value.text
            missing == {i \in DOMAIN DeclaredNames :
                           \A p \in DOMAIN text : text[p] # Brace(DeclaredNames[i])}
        IN  IF missing = {}
            THEN last.err.kind = "none"
            ELSE /\ last.err.kind = "PlaceholderNotDefined"
                 /\ \E i \in missing :
                       /\ \A j \in missing : i <= j
                       /\ last.err.name = DeclaredNames[i]
                 /\ last.err.text = text

\* A verification that failed on the first of two absent names, the first
\* declared name being present in the text.
C24_Witness ==
    /\ Called
    /\ last.err.kind = "PlaceholderNotDefined"
    /\ DeclaredNames = <<"m", "n">>
    /\ last.err.name = "m"
    /\ last.err.text = <<"Hi", PhTag("n")>>

\* C29: a dry-run translate() never adds or overwrites a cache entry; the
\* only change it makes to the cache is removing, for the target language,
\* the keys in diff.delete, and with caching enabled it still writes the
\* cache file at the end of the call.
C29_DryRunCache ==
    (Called /\ last.dry) =>
        LET removed == IF last.err.kind = "none" THEN last.diff.delete ELSE {}
            b0 == last.cacheBefore[last.lang]
        IN  /\ \A l \in Langs \ {last.lang} : last.cacheAfter[l] = last.cacheBefore[l]
            /\ last.cacheAfter[last.lang].present = b0.present
            /\ last.cacheAfter[last.lang].contents =
                  SelectSeq(b0.contents, LAMBDA e : e.key \notin removed)
            /\ (last.err.kind = "none" /\ ~last.dc)
                  => last.written /\ disk = last.cacheAfter
            /\ last.dc => ~last.written /\ disk = last.diskBefore

\* A successful dry run with caching that had keys to create, removed a
\* cached key of diff.delete and wrote the changed cache to the cache file.
C29_Witness ==
    /\ Succeeded
    /\ last.dry
    /\ ~last.dc
    /\ last.diff.create # {}
    /\ \E k \in last.diff.delete :
          /\ Has(last.cacheBefore[last.lang].contents, k)
          /\ ~Has(last.cacheAfter[last.lang].contents, k)
          /\ ~Has(disk[last.lang].contents, k)
    /\ last.written
    /\ disk # last.diskBefore

\* The translatable entries of the template: no '@' prefix, string value.
TranslatableIndices ==
    {i \in DOMAIN last.template :
        last.template[i].value.kind = "string" /\ ~IsPrefixed(last.template[i].key)}

\* The keys of the override bundle of the call.
OverrideKeys == {last.ov.contents[i].key : i \in DOMAIN last.ov.contents}

\* C30 as claimed: after a successful non-dry-run translate() every
\* translatable template key is in the output with a string value, and every
\* key of the output is a key of the template or of the override bundle.
C30_TranslatableAreStrings ==
    (Succeeded /\ ~last.dry) =>
        /\ \A i \in TranslatableIndices :
              /\ Has(last.output, last.template[i].key)
              /\ Get(last.output, last.template[i].key).kind = "string"
        /\ \A j \in DOMAIN last.output :
              \/ Has(last.template, last.output[j].key)
              \/ last.output[j].key \in OverrideKeys

\* C30 as amended: every translatable template key is in the output; its
\* value is the translated string when the key was sent to the backend, the
\* value of the override when it has one, and otherwise the value the target
\* held, which need not be a string; every key of the output is a key of
\* the template or of the override bundle.
C30_TranslatablePresent ==
    (Succeeded /\ ~last.dry) =>
        /\ \A i \in TranslatableIndices :
              LET k == last.template[i].key
              IN  /\ Has(last.output, k)
                  /\ k \in QueuedKeys => Get(last.output, k).kind = "string"
                  /\ HasOverride(k) => Holds(last.ov.contents, k, Get(last.output, k))
                  /\ (k \notin QueuedKeys /\ ~HasOverride(k))
                        => /\ Has(last.target.contents, k)
                           /\ Get(last.output, k) = Get(last.target.contents, k)
        /\ \A j \in DOMAIN last.output :
              \/ Has(last.template, last.output[j].key)
              \/ last.output[j].key \in OverrideKeys

\* A successful call that translated one key and kept the number the target
\* held for another translatable key.
C30_Witness ==
    /\ Succeeded
    /\ ~last.dry
    /\ last.length >= 1
    /\ \E k \in QueuedKeys : Get(last.output, k).kind = "string"
    /\ \E i \in TranslatableIndices :
          /\ last.template[i].key \notin QueuedKeys
          /\ Get(last.output, last.template[i].key).kind = "number"

----------------------------------------------------------------------------
\* Sequences of two calls: one context lives through both calls, and the
\* Translate command builds its own context from the cache file each time.

\* translate_language (main.rs) on a context that already exists: the call
\* is a dry run unless --apply is given, the cache is enabled, and with
\* --apply the output bundle is written as the bundle file of the language.
TranslateLanguage(lang, apply, inval, ov, resp) ==
    LET opts == [lang |-> lang, dry |-> ~apply, dc |-> FALSE, inval |-> inval, ov |-> ov]
        r == TranslateOrNoTemplate(files[lang], cache, opts, resp)
    IN  /\ last' = CallRecord("ctx", opts, files[lang], cache, r)
        /\ cache' = last'.cacheAfter
        /\ disk' = IF last'.written THEN WriteCache(last'.cacheAfter, disk, lang) ELSE disk
        /\ files' = IF apply /\ last'.err.kind = "none"
                    THEN [files EXCEPT ![lang] = Some(last'.output)]
                    ELSE files
        /\ ncalls' = ncalls + 1
        /\ UNCHANGED <<template, diffOut, templateExists, name_prefix, dir, listed>>

SeqOverrideSet == OverrideSet \cup {Some(<<Entry("a", Salut)>>)}

\* The backend answers a call of a sequence or fails it; a dry run makes no
\* request.
SeqResponsesOf(dry) == IF dry THEN {"ok"} ELSE {"ok", "fail"}

InitSeq ==
    /\ template \in TemplateSet
    /\ \E x \in TargetSet : files = [l \in Langs |-> IF l = "FR" THEN x ELSE None]
    /\ disk \in CacheSet
    /\ cache = disk
    /\ last = NoCall
    /\ diffOut = [l \in {} |-> 0]
    /\ ncalls = 0
    /\ templateExists = TRUE
    /\ name_prefix = App
    /\ dir = {}
    /\ listed = NoListing
    /\ before = NoCall
    /\ update = NoUpdate

\* Each call remembers the call made before it.
NextSeq ==
    /\ ncalls < MaxCalls
    /\ before' = last
    /\ UNCHANGED update
    /\ \/ \E lang \in CallLangs, apply \in BOOLEAN,
             inval \in InvalidationSet, ov \in SeqOverrideSet :
               \E resp \in SeqResponsesOf(~apply) :
                   TranslateLanguage(lang, apply, inval, ov, resp)
       \/ \E lang \in CallLangs, apply \in BOOLEAN,
             inval \in InvalidationSet, ov \in SeqOverrideSet :
               \E resp \in SeqResponsesOf(~apply) :
                   TranslateCommand(lang, apply, inval, ov, resp)

SpecSeq == InitSeq /\ [][NextSeq]_vars

\* The pairs of key and value of a bundle.
Pairs(b) == {<<b[i].key, b[i].value>> : i \in DOMAIN b}

\* The last call was made on the context right after a successful call on
\* it that was no dry run, had the cache enabled and whose output was saved
\* as the bundle file; it has the same language and overrides and
\* invalidates nothing.
SecondOfConverging ==
    /\ before.via = "ctx"
    /\ before.err.kind = "none"
    /\ ~before.dry
    /\ ~before.dc
    /\ last.via = "ctx"
    /\ last.lang = before.lang
    /\ last.ov = before.ov
    /\ last.inval = NoInvalidation
    /\ last.template = before.template
    /\ last.target = Some(before.output)

\* C27: after a successful non-dry-run translate() with caching enabled
\* whose output bundle is saved as the target file, a second translate() on
\* the same context with the same template, the same overrides and no
\* invalidation sends no string to the backend (length 0) and returns an
\* output with the same key/value pairs.
C27_Convergence ==
    SecondOfConverging =>
        /\ last.err.kind = "none"
        /\ last.length = 0
        /\ Queued = <<>>
        /\ last.requests = <<>>
        /\ Pairs(last.output) = Pairs(before.output)

\* A second call after a first one that sent strings to the backend, created
\* and deleted keys and used an override.
C27_Witness ==
    /\ SecondOfConverging
    /\ before.length >= 1
    /\ before.diff.create # {}
    /\ before.diff.delete # {}
    /\ before.ov.present
    /\ last.length = 0
    /\ Pairs(last.output) = Pairs(before.output)

\* The entries a call recorded in the cache bundle of its language.
Recorded(call) ==
    Pairs(call.cacheAfter[call.lang].contents)
        \ Pairs(call.cacheBefore[call.lang].contents)

\* Two contexts built from the same cache file: the context of a Translate
\* command translated one language and wrote the cache file, then the other
\* context translated another language and wrote the file.
TwoContexts ==
    /\ before.via = "cli"
    /\ before.err.kind = "none"
    /\ before.written
    /\ last.via = "ctx"
    /\ last.err.kind = "none"
    /\ last.written
    /\ last.lang # before.lang
    /\ last.cacheBefore = before.cacheBefore

\* C25: two synchronization contexts built from the same cache file that
\* each run a successful translate() with caching enabled for a different
\* language lose an update: the context that writes the cache file last
\* overwrites the whole file from its own in-memory copy, so the entries the
\* other context recorded for its language are missing from the file
\* afterwards.
C25_LostUpdate ==
    TwoContexts =>
        /\ last.diskBefore = before.cacheAfter
        /\ disk = last.cacheAfter
        /\ \A p \in Recorded(before) :
              p \notin Pairs(disk[before.lang].contents)

\* The first context recorded an entry for its language and the second one
\* recorded an entry for the other language before writing the file.
C25_Witness ==
    /\ TwoContexts
    /\ Recorded(before) # {}
    /\ Recorded(last) # {}
    /\ Recorded(before) \subseteq Pairs(last.diskBefore[before.lang].contents)
    /\ Recorded(last) \subseteq Pairs(disk[last.lang].contents)

\* Whether a call was given an override for the key.
OverriddenIn(call, k) ==
    call.ov.present /\ \E i \in DOMAIN call.ov.contents : call.ov.contents[i].key = k

\* The call before the last succeeded with an override for the key while
\* the template value of the key was a text that differed from its cached
\* text, and the last call is for the same language and starts from the
\* cache that call left.
StaleOverridden(k) ==
    /\ before.via # "none"
    /\ before.err.kind = "none"
    /\ OverriddenIn(before, k)
    /\ k \in before.diff.update
    /\ Has(template, k)
    /\ Get(template, k).kind = "string"
    /\ last.lang = before.lang
    /\ last.cacheBefore = before.cacheAfter

\* C28: a key whose template text differs from its cached text and that
\* has an override stays in diff.update after every successful translate()
\* made with that override: its cache entry is never refreshed, so once the
\* override is withdrawn the next translate() queues the key for the
\* backend (a dry run queues nothing, and neither does a call that stops on
\* a placeholder that is not declared).
C28_StaleUnderOverride ==
    \A k \in {"a", "b"} :
        StaleOverridden(k) =>
            LET b0 == before.cacheBefore[before.lang].contents
                b1 == before.cacheAfter[before.lang].contents
            IN  /\ Has(b0, k) /\ Has(b1, k) /\ Get(b1, k) = Get(b0, k)
                /\ k \in last.diff.update
                /\ ( /\ ~HasOverride(k)
                      /\ ~last.dry
                      /\ last.err.kind # "PlaceholderNotDefined" )
                    => k \in QueuedKeys

\* The override was used by a call that wrote the cache file, and the next
\* call, made without it, sent the key to the backend.
C28_Witness ==
    \E k \in {"a", "b"} :
        /\ StaleOverridden(k)
        /\ before.written
        /\ before.length >= 1
        /\ ~HasOverride(k)
        /\ Succeeded
        /\ k \in QueuedKeys
        /\ last.length >= 1

----------------------------------------------------------------------------
\* The Update command: one context, every listed language in turn.

\* The language of the template bundle file.
TemplateLanguage == "EN"

\* The languages list_translated() finds in the arb directory: the template
\* file and the bundle files are all in it.
ListedLangs ==
    (IF templateExists THEN {TemplateLanguage} ELSE {})
        \cup {l \in Langs : files[l].present}

\* The orders in which the keys of the map of listed languages may come.
Orders(S) ==
    {s \in [1..Cardinality(S) -> S] : \A i, j \in DOMAIN s : i # j => s[i] # s[j]}

\* The override bundles of the languages.
UpdateOverrideSet ==
    {[l \in Langs |-> IF l = "FR" THEN x ELSE None] : x \in OverrideSet}

\* The start of the Update command: new_intl reads the cache file into a new
\* context, the overrides are loaded and the languages are listed.
UpdateStart(apply, inval, ov, order) ==
    /\ ~update.started
    /\ order \in Orders(ListedLangs)
    /\ cache' = disk
    /\ update' = [started |-> TRUE, order |-> order, todo |-> order,
                  apply |-> apply, inval |-> inval, ov |-> ov,
                  done |-> <<>>, failed |-> FALSE,
                  files0 |-> files, disk0 |-> disk]
    /\ UNCHANGED <<template, files, disk, last, diffOut, ncalls,
                   templateExists, name_prefix, dir, listed>>

\* A faulty loop that goes on after translate_language returned an error.
ProceedsAfterFailure(u) == u.started /\ u.todo # <<>>

\* The loop goes on while languages are left and no call returned an error:
\* "translate_language(...).await?" leaves main with the error.
Proceeds(u) == u.started /\ ~u.failed /\ u.todo # <<>>

\* What the loop keeps of one iteration.
Iteration(lang, skipped, err, bundle, cached) ==
    [lang |-> lang, skipped |-> skipped, err |-> err,
     bundle |-> bundle, cached |-> cached]

\* One iteration of the loop over the listed languages.
UpdateStep(resp) ==
    /\ Proceeds(update)
    /\ LET lang == Head(update.todo)
       IN  IF lang = TemplateLanguage
           THEN /\ update' = [update EXCEPT
                                 !.todo = Tail(@),
                                 !.done = Append(@, Iteration(lang, TRUE, NoErr, None, None))]
                /\ UNCHANGED <<template, files, cache, disk, last, diffOut, ncalls,
                               templateExists, name_prefix, dir, listed>>
           ELSE /\ resp \in ResponsesOf(~update.apply)
                /\ TranslateLanguage(lang, update.apply, update.inval,
                                     update.ov[lang], resp)
                /\ update' = [update EXCEPT
                                 !.todo = Tail(@),
                                 !.done = Append(@, Iteration(lang, FALSE, last'.err,
                                                              files'[lang], disk'[lang])),
                                 !.failed = last'.err.kind # "none"]

InitUpdate ==
    /\ template \in TemplateSet
    /\ templateExists = TRUE
    /\ \E x \in TargetSet, y, z \in {None, Some(<<Entry("a", Old)>>)} :
          files = [l \in Langs |-> IF l = "FR" THEN x ELSE IF l = "DE" THEN y ELSE z]
    /\ disk \in CacheSet
    /\ cache = disk
    /\ last = NoCall
    /\ diffOut = [l \in {} |-> 0]
    /\ ncalls = 0
    /\ name_prefix = App
    /\ dir = {}
    /\ listed = NoListing
    /\ before = NoCall
    /\ update = NoUpdate

NextUpdate ==
    /\ UNCHANGED before
    /\ \/ \E apply \in BOOLEAN, inval \in InvalidationSet,
             ov \in UpdateOverrideSet, order \in Orders(ListedLangs) :
               UpdateStart(apply, inval, ov, order)
       \/ \E resp \in Responses : UpdateStep(resp)

SpecUpdate == InitUpdate /\ [][NextUpdate]_vars

\* The languages of the iterations made so far.
DoneLangs == [i \in DOMAIN update.done |-> update.done[i].lang]

\* The languages left after an iteration failed.
LeftLangs == {update.todo[i] : i \in DOMAIN update.todo}

\* C26: the update command translates the listed languages one after
\* another, skipping the template language; if translate() fails for one
\* language, no later language in the list is translated or written, while
\* bundle files and cache already written for earlier languages stay as
\* written.
C26_UpdateStopsAtFailure ==
    update.started =>
        /\ DoneLangs \o update.todo = update.order
        /\ \A i \in DOMAIN update.done :
              LET it == update.done[i]
              IN  /\ it.skipped <=> it.lang = TemplateLanguage
                  /\ (it.err.kind # "none") => (i = Len(update.done) /\ update.failed)
                  /\ ~it.skipped =>
                        /\ files[it.lang] = it.bundle
                        /\ disk[it.lang] = it.cached
                        /\ (update.apply /\ it.err.kind = "none") => it.bundle.present
        /\ update.failed =>
              /\ update.done # <<>>
              /\ update.done[Len(update.done)].err.kind # "none"
              /\ last.lang = update.done[Len(update.done)].lang
              /\ \A l \in LeftLangs \ {TemplateLanguage} :
                    /\ files[l] = update.files0[l]
                    /\ disk[l] = update.disk0[l]
                    /\ cache[l] = update.disk0[l]

\* The second language failed after the first one was translated and its
\* bundle file and the cache file were written, and a language is left.
C26_Witness ==
    /\ update.failed
    /\ update.apply
    /\ Len(update.done) >= 2
    /\ \E i \in DOMAIN update.done :
          /\ ~update.done[i].skipped
          /\ update.done[i].err.kind = "none"
          /\ update.done[i].bundle # update.files0[update.done[i].lang]
          /\ update.done[i].cached # update.disk0[update.done[i].lang]
    /\ LeftLangs \ {TemplateLanguage} # {}

====
